---- MODULE Spec2Model ----
(***************************************************************************)
(* Neural-network layers of rusty-machine (learning/nnet/net_layer.rs):    *)
(* the Linear layer (optional bias) and the blanket activation layer.      *)
(* Scalars are modelled as integers; a matrix is a record with its row and *)
(* column counts and its row-major data, as in the matrix library.  A call *)
(* that panics yields the value Panic.                                     *)
(***************************************************************************)
EXTENDS Integers, Sequences, FiniteSets, TLC

VARIABLES
    ctor,              \* the constructor call that built the layer
    layer,             \* the layer descriptor (immutable after construction)
    debug_assertions,  \* TRUE in a debug build: debug_assert_eq! is compiled in
    op,                \* the last NetLayer method called
    input,             \* its `input` argument
    out_grad,          \* its `out_grad` argument
    params,            \* its `params` argument (the parameter view)
    out,               \* the matrix it returned, or Panic
    rng,               \* state of the thread-local random generator
    vec,               \* last result of default_params
    prev_vec,          \* the result of the default_params call before that
    shape,             \* last result of param_shape
    count,             \* last result of num_params
    calls              \* the parameter-metadata methods called so far

vars == <<ctor, layer, debug_assertions, op, input, out_grad, params, out,
          rng, vec, prev_vec, shape, count, calls>>

(***************************************************************************)
(* Bounds of the model.                                                    *)
(***************************************************************************)
MaxN == 2       \* batch rows
MaxI == 2       \* input dimensionality given to a constructor
MaxO == 2       \* output dimensionality given to a constructor
MaxSeed == 2    \* matrix contents are drawn from the patterns 0..MaxSeed
MaxH == 2       \* perturbation sizes 1..MaxH of the finite-difference checks
MaxRng == 4     \* the generator state ranges over 0..MaxRng

(***************************************************************************)
(* The matrix library (rulinalg), as far as the layers use it.             *)
(***************************************************************************)
Panic == [rows |-> -1, cols |-> -1, data |-> <<>>]

IsPanic(m) == m.rows < 0

\* Matrix::new asserts that the data fills the given dimensions.
Matrix_new(rows, cols, data) ==
    IF rows * cols # Len(data) THEN Panic
    ELSE [rows |-> rows, cols |-> cols, data |-> data]

\* The first n values of f collected into a vector.
RECURSIVE collect(_, _)
collect(f, n) == IF n = 0 THEN <<>> ELSE Append(collect(f, n - 1), f[n])

RECURSIVE SumSeq(_, _)
SumSeq(s, n) == IF n = 0 THEN 0 ELSE s[n] + SumSeq(s, n - 1)

\* m[[i, j]], zero-based, row-major.
Entry(m, i, j) == m.data[i * m.cols + j + 1]

ones(rows, cols) == Matrix_new(rows, cols, collect([k \in 1..(rows * cols) |-> 1], (rows * cols)))

\* Horizontal concatenation; asserts equal row counts.
hcat(a, b) ==
    IF IsPanic(a) \/ IsPanic(b) THEN Panic
    ELSE IF a.rows # b.rows THEN Panic
    ELSE LET c == a.cols + b.cols
         IN  [rows |-> a.rows, cols |-> c,
              data |-> collect([k \in 1..(a.rows * c) |->
                          LET i == (k - 1) \div c
                              j == (k - 1) % c
                          IN  IF j < a.cols THEN Entry(a, i, j)
                                            ELSE Entry(b, i, j - a.cols)], (a.rows * c))]

transpose(m) ==
    IF IsPanic(m) THEN Panic
    ELSE [rows |-> m.cols, cols |-> m.rows,
          data |-> collect([k \in 1..(m.rows * m.cols) |->
                      Entry(m, (k - 1) % m.rows, (k - 1) \div m.rows)], (m.rows * m.cols))]

\* select_rows takes zero-based row indices; asserts they are in range.
select_rows(m, rows) ==
    IF IsPanic(m) THEN Panic
    ELSE IF \E r \in 1..Len(rows) : rows[r] >= m.rows THEN Panic
    ELSE [rows |-> Len(rows), cols |-> m.cols,
          data |-> collect([k \in 1..(Len(rows) * m.cols) |->
                      Entry(m, rows[((k - 1) \div m.cols) + 1], (k - 1) % m.cols)], (Len(rows) * m.cols))]

\* Matrix product; asserts a.cols == b.rows.
mul(a, b) ==
    IF IsPanic(a) \/ IsPanic(b) THEN Panic
    ELSE IF a.cols # b.rows THEN Panic
    ELSE [rows |-> a.rows, cols |-> b.cols,
          data |-> collect([k \in 1..(a.rows * b.cols) |->
                      LET i == (k - 1) \div b.cols
                          j == (k - 1) % b.cols
                      IN  SumSeq([t \in 1..a.cols |->
                                    Entry(a, i, t - 1) * Entry(b, t - 1, j)],
                                 a.cols)], (a.rows * b.cols))]

\* Elementwise product; asserts equal row and column counts.
elemul(a, b) ==
    IF IsPanic(a) \/ IsPanic(b) THEN Panic
    ELSE IF a.rows # b.rows \/ a.cols # b.cols THEN Panic
    ELSE [rows |-> a.rows, cols |-> a.cols,
          data |-> collect([k \in 1..(a.rows * a.cols) |-> a.data[k] * b.data[k]], (a.rows * a.cols))]

\* (0..n).collect()
range(n) == collect([k \in 1..n |-> k - 1], n)

(***************************************************************************)
(* Activation functions (learning::toolkit::activ_fn), over the integers.  *)
(***************************************************************************)
ActivationFuncs == {"Identity", "Relu", "Square"}

func(T, x) ==
    CASE T = "Identity" -> x
      [] T = "Relu"     -> IF x > 0 THEN x ELSE 0
      [] T = "Square"   -> x * x

func_grad(T, x) ==
    CASE T = "Identity" -> 1
      [] T = "Relu"     -> IF x > 0 THEN 1 ELSE 0
      [] T = "Square"   -> 2 * x

\* Matrix::apply: the function applied to every element.
apply(m, T) ==
    IF IsPanic(m) THEN Panic
    ELSE [rows |-> m.rows, cols |-> m.cols,
          data |-> collect([k \in 1..(m.rows * m.cols) |-> func(T, m.data[k])], (m.rows * m.cols))]

(***************************************************************************)
(* Linear layer.                                                           *)
(***************************************************************************)
Linear_new(input_size, output_size) ==
    [kind |-> "Linear", input_size |-> input_size + 1,
     output_size |-> output_size, has_bias |-> TRUE]

Linear_without_bias(input_size, output_size) ==
    [kind |-> "Linear", input_size |-> input_size,
     output_size |-> output_size, has_bias |-> FALSE]

\* debug_assert_eq!(a, b) passes unless the build has debug assertions and a # b.
debug_assert_eq(a, b) == debug_assertions => (a = b)

Linear_forward_ZeroBias(self, inp, par) ==
    IF self.has_bias
    THEN IF ~debug_assert_eq(inp.cols + 1, par.rows) THEN Panic
         ELSE mul(hcat(inp, Matrix_new(inp.rows, 1, collect([k \in 1..inp.rows |-> 0], inp.rows))), par)
    ELSE IF ~debug_assert_eq(inp.cols, par.rows) THEN Panic
         ELSE mul(inp, par)

Linear_forward(self, inp, par) ==
    IF self.has_bias
    THEN IF ~debug_assert_eq(inp.cols + 1, par.rows) THEN Panic
         ELSE mul(hcat(inp, ones(inp.rows, 1)), par)
    ELSE IF ~debug_assert_eq(inp.cols, par.rows) THEN Panic
         ELSE mul(inp, par)

Linear_back_input_KeepBiasRow(self, grad, inp, par) ==
    IF ~debug_assert_eq(grad.cols, par.cols) THEN Panic
    ELSE mul(grad, transpose(par))

Linear_back_input_DropFirstRow(self, grad, inp, par) ==
    IF ~debug_assert_eq(grad.cols, par.cols) THEN Panic
    ELSE IF self.has_bias
    THEN IF par.rows = 0 THEN Panic
         ELSE mul(grad, transpose(select_rows(par, collect([k \in 1..(par.rows - 1) |-> k], (par.rows - 1)))))
    ELSE mul(grad, transpose(par))

\* params.rows() - 1 on a view without rows underflows: a panic in a debug
\* build, and in a release build a range too long to collect.
Linear_back_input(self, grad, inp, par) ==
    IF ~debug_assert_eq(grad.cols, par.cols) THEN Panic
    ELSE IF self.has_bias
    THEN IF par.rows = 0 THEN Panic
         ELSE mul(grad, transpose(select_rows(par, range(par.rows - 1))))
    ELSE mul(grad, transpose(par))

Linear_back_params_BiasFirst(self, grad, inp, par) ==
    IF inp.rows # grad.rows THEN Panic
    ELSE IF self.has_bias
    THEN mul(transpose(hcat(ones(inp.rows, 1), inp)), grad)
    ELSE mul(transpose(inp), grad)

Linear_back_params(self, grad, inp, par) ==
    IF inp.rows # grad.rows THEN Panic
    ELSE IF self.has_bias
    THEN mul(transpose(hcat(inp, ones(inp.rows, 1))), grad)
    ELSE mul(transpose(inp), grad)

Linear_param_shape_PlusBias(self) ==
    <<IF self.has_bias THEN self.input_size + 1 ELSE self.input_size,
      self.output_size>>

Linear_param_shape(self) == <<self.input_size, self.output_size>>

\* Normal::new(0.0, sqrt(2 / (input_size + output_size))).sample(rng): the
\* deviate the generator state yields, scaled by the standard deviation, which
\* is kept as its denominator.
sample(den, s) == [z |-> ((s * 3) % 5) - 2, den |-> den]

\* The generator state after n draws from state s.
advance(s, n) == (s + n) % (MaxRng + 1)

Linear_default_params_NoBiasRow(self, s) ==
    LET n == IF self.has_bias THEN (self.input_size - 1) * self.output_size
                              ELSE self.input_size * self.output_size
    IN  collect([k \in 1..n |-> sample(self.input_size + self.output_size, advance(s, k - 1))], n)

\* input_size * output_size successive draws from the thread-local generator.
Linear_default_params(self, s) ==
    collect([k \in 1..(self.input_size * self.output_size) |->
        sample(self.input_size + self.output_size, advance(s, k - 1))], (self.input_size * self.output_size))

(***************************************************************************)
(* Activation layer: impl<T: ActivationFunc> NetLayer for T.               *)
(***************************************************************************)
Activation(T) == [kind |-> "Activ", T |-> T]

T_forward(self, inp, par) == apply(inp, self.T)

T_back_input_NoChainRule(self, grad, inp, par) ==
    elemul(grad, Matrix_new(inp.rows, inp.cols,
                            collect([k \in 1..Len(inp.data) |-> func(self.T, inp.data[k])], Len(inp.data))))

T_back_input(self, grad, inp, par) ==
    elemul(grad, Matrix_new(inp.rows, inp.cols,
                            collect([k \in 1..Len(inp.data) |-> func_grad(self.T, inp.data[k])], Len(inp.data))))

T_back_params(self, grad, inp, par) == Matrix_new(0, 0, <<>>)

T_default_params(self, s) == <<>>

T_param_shape(self) == <<0, 0>>

(***************************************************************************)
(* trait NetLayer: dynamic dispatch and the provided num_params.           *)
(***************************************************************************)
forward(self, inp, par) ==
    IF self.kind = "Linear" THEN Linear_forward(self, inp, par)
                            ELSE T_forward(self, inp, par)

back_input(self, grad, inp, par) ==
    IF self.kind = "Linear" THEN Linear_back_input(self, grad, inp, par)
                            ELSE T_back_input(self, grad, inp, par)

back_params(self, grad, inp, par) ==
    IF self.kind = "Linear" THEN Linear_back_params(self, grad, inp, par)
                            ELSE T_back_params(self, grad, inp, par)

default_params(self, s) ==
    IF self.kind = "Linear" THEN Linear_default_params(self, s)
                            ELSE T_default_params(self, s)

param_shape(self) ==
    IF self.kind = "Linear" THEN Linear_param_shape(self)
                            ELSE T_param_shape(self)

num_params(self) ==
    LET sh == param_shape(self) IN sh[1] * sh[2]

(***************************************************************************)
(* Construction.  A layer is built once and never changes afterwards.      *)
(***************************************************************************)
Ctors ==
    {[name |-> nm, I |-> i, O |-> o, T |-> "-"] :
        nm \in {"new", "without_bias"}, i \in 1..MaxI, o \in 1..MaxO}
    \cup {[name |-> "activation", I |-> 0, O |-> 0, T |-> t] : t \in ActivationFuncs}

Construct(c) ==
    CASE c.name = "new"          -> Linear_new(c.I, c.O)
      [] c.name = "without_bias" -> Linear_without_bias(c.I, c.O)
      [] c.name = "activation"   -> Activation(c.T)

(***************************************************************************)
(* Arguments of the calls.  A matrix argument has the shape the layer      *)
(* expects or one that is off by one row or one column, and its contents   *)
(* follow one of the patterns 0..MaxSeed (pattern 0 is the all-ones        *)
(* matrix).                                                                *)
(***************************************************************************)
Seeds == 0..MaxSeed

Devs == {<<0, 0>>, <<1, 0>>, <<0, 1>>}

Gen(rows, cols, seed) ==
    Matrix_new(rows, cols,
               collect([k \in 1..(rows * cols) |->
                   IF seed = 0 THEN 1 ELSE (((seed + 1) * k * 7 + seed) % 5) - 2], (rows * cols)))

NoMatrix == Matrix_new(0, 0, <<>>)

Shape(m) == <<m.rows, m.cols>>

\* Column counts of the batches handed to the layer.
InCols == IF layer.kind = "Linear" THEN {ctor.I} ELSE 1..MaxI

\* Column count of the gradient that belongs to a batch of c columns.
GradCols(c) == IF layer.kind = "Linear" THEN ctor.O ELSE c

\* Shapes of the parameter views handed to the layer.
ParamShapes ==
    IF layer.kind = "Linear"
    THEN {<<param_shape(layer)[1] + d[1], param_shape(layer)[2] + d[2]>> : d \in Devs}
    ELSE {<<0, 0>>, <<1, 1>>, <<2, 1>>}

(***************************************************************************)
(* The two specifications share the variables.  Spec calls the forward and *)
(* backward operations, one call at a time; SpecParams calls the           *)
(* parameter-metadata methods.                                             *)
(***************************************************************************)
InitCommon ==
    /\ ctor \in Ctors
    /\ layer = Construct(ctor)
    /\ debug_assertions \in BOOLEAN
    /\ op = "none"
    /\ input = NoMatrix
    /\ out_grad = NoMatrix
    /\ params = NoMatrix
    /\ out = NoMatrix
    /\ vec = <<>>
    /\ prev_vec = <<>>
    /\ shape = <<0, 0>>
    /\ count = 0
    /\ calls = {}

\* The forward and backward operations never touch the generator.
Init == InitCommon /\ rng = 0

\* thread_rng() is seeded by the operating system.
InitParams == InitCommon /\ rng \in 0..MaxRng

metaVars == <<rng, vec, prev_vec, shape, count, calls>>

mathVars == <<op, input, out_grad, params, out>>

fixedVars == <<ctor, layer, debug_assertions>>

Forward ==
    /\ op = "none"
    /\ \E n \in 1..MaxN, c \in InCols, di \in Devs, ps \in ParamShapes, si \in Seeds, sp \in Seeds :
        LET inp == Gen(n + di[1], c + di[2], si)
            par == Gen(ps[1], ps[2], sp)
        IN  /\ op' = "forward"
            /\ input' = inp
            /\ out_grad' = NoMatrix
            /\ params' = par
            /\ out' = forward(layer, inp, par)
            /\ UNCHANGED <<fixedVars, metaVars>>

BackInput ==
    /\ op = "none"
    /\ \E n \in 1..MaxN, c \in InCols, di \in Devs, dg \in Devs, ps \in ParamShapes,
       si \in Seeds, sg \in Seeds, sp \in Seeds :
        LET inp  == Gen(n + di[1], c + di[2], si)
            grad == Gen(n + dg[1], GradCols(c) + dg[2], sg)
            par  == Gen(ps[1], ps[2], sp)
        IN  /\ op' = "back_input"
            /\ input' = inp
            /\ out_grad' = grad
            /\ params' = par
            /\ out' = back_input(layer, grad, inp, par)
            /\ UNCHANGED <<fixedVars, metaVars>>

BackParams ==
    /\ op = "none"
    /\ \E n \in 1..MaxN, c \in InCols, di \in Devs, dg \in Devs, ps \in ParamShapes,
       si \in Seeds, sg \in Seeds, sp \in Seeds :
        LET inp  == Gen(n + di[1], c + di[2], si)
            grad == Gen(n + dg[1], GradCols(c) + dg[2], sg)
            par  == Gen(ps[1], ps[2], sp)
        IN  /\ op' = "back_params"
            /\ input' = inp
            /\ out_grad' = grad
            /\ params' = par
            /\ out' = back_params(layer, grad, inp, par)
            /\ UNCHANGED <<fixedVars, metaVars>>

\* The call returns: its arguments were borrowed and its result moves to the
\* caller; the layer keeps nothing of it.
Return ==
    /\ op # "none"
    /\ op' = "none"
    /\ input' = NoMatrix
    /\ out_grad' = NoMatrix
    /\ params' = NoMatrix
    /\ out' = NoMatrix
    /\ UNCHANGED <<fixedVars, metaVars>>

Next == Forward \/ BackInput \/ BackParams \/ Return

Spec == Init /\ [][Next]_vars

\* Every sample drawn advances the thread-local generator.
DefaultParams ==
    /\ vec' = default_params(layer, rng)
    /\ rng' = advance(rng, Len(vec'))
    /\ prev_vec' = vec
    /\ calls' = calls \cup (IF "default_params" \in calls
                            THEN {"default_params_again"} ELSE {"default_params"})
    /\ UNCHANGED <<fixedVars, mathVars, shape, count>>

ParamShape ==
    /\ shape' = param_shape(layer)
    /\ calls' = calls \cup {"param_shape"}
    /\ UNCHANGED <<fixedVars, mathVars, rng, vec, prev_vec, count>>

NumParams ==
    /\ count' = num_params(layer)
    /\ calls' = calls \cup {"num_params"}
    /\ UNCHANGED <<fixedVars, mathVars, rng, vec, prev_vec, shape>>

NextParams == DefaultParams \/ ParamShape \/ NumParams

SpecParams == InitParams /\ [][NextParams]_vars

(***************************************************************************)
(* Properties.                                                             *)
(***************************************************************************)
HasBias == ctor.name = "new"

\* The parameter shape a layer built from (I, O) works on.
CtorParamShape == <<IF HasBias THEN ctor.I + 1 ELSE ctor.I, ctor.O>>

Loss(m) == SumSeq(m.data, Len(m.data))

Perturb(m, i, j, h) == [m EXCEPT !.data[i * m.cols + j + 1] = @ + h]

\* A Linear call whose arguments all have the shapes the layer is built for.
WellShaped(o) ==
    /\ op = o
    /\ layer.kind = "Linear"
    /\ input.cols = ctor.I
    /\ Shape(params) = CtorParamShape
    /\ o # "forward" => Shape(out_grad) = <<input.rows, ctor.O>>

\* C1: Linear forward on an N x I input with parameters of the layer's shape
\* returns the N x O matrix whose entry (n, o) is the sum over i < I of
\* input[n][i] * params[i][o], plus the bias row params[I][o] when the layer
\* has a bias.
C1_ForwardIsProduct ==
    WellShaped("forward") =>
        /\ Shape(out) = <<input.rows, ctor.O>>
        /\ \A n \in 0..(input.rows - 1), o \in 0..(ctor.O - 1) :
              Entry(out, n, o) =
                  SumSeq([i \in 1..ctor.I |-> Entry(input, n, i - 1) * Entry(params, i - 1, o)],
                         ctor.I)
                  + (IF HasBias THEN Entry(params, ctor.I, o) ELSE 0)

C1_Witness ==
    /\ WellShaped("forward")
    /\ HasBias /\ ctor.I = 2 /\ ctor.O = 2 /\ input.rows = 2
    /\ input # ones(2, 2) /\ params # ones(3, 2)
    /\ ~IsPanic(out)

\* C2: for a biased Linear layer and the loss L(P) = sum of the entries of
\* forward(input, P), raising parameter entry (i, j) by h changes L by h times
\* entry (i, j) of back_params(all-ones out_grad, input, P), for every entry
\* of P, the bias row included.
C2_BackParamsGradient ==
    (WellShaped("back_params") /\ HasBias /\ out_grad = ones(input.rows, ctor.O)) =>
        /\ Shape(out) = Shape(params)
        /\ \A i \in 0..(params.rows - 1), j \in 0..(params.cols - 1), h \in 1..MaxH :
              Loss(Linear_forward(layer, input, Perturb(params, i, j, h)))
                  - Loss(Linear_forward(layer, input, params))
              = h * Entry(out, i, j)

C2_Witness ==
    /\ WellShaped("back_params") /\ HasBias
    /\ out_grad = ones(input.rows, ctor.O)
    /\ ctor.I = 2 /\ ctor.O = 2 /\ input.rows = 2
    /\ input # ones(2, 2)
    /\ ~IsPanic(out)

\* C3: for a biased Linear layer and the loss L(X) = sum of the entries of
\* forward(X, params), raising input entry (n, k) by h changes L by h times
\* entry (n, k) of back_input(all-ones out_grad, X, params), for every entry
\* of X.
C3_BackInputGradient ==
    (WellShaped("back_input") /\ HasBias /\ out_grad = ones(input.rows, ctor.O)) =>
        /\ Shape(out) = Shape(input)
        /\ \A n \in 0..(input.rows - 1), k \in 0..(input.cols - 1), h \in 1..MaxH :
              Loss(Linear_forward(layer, Perturb(input, n, k, h), params))
                  - Loss(Linear_forward(layer, input, params))
              = h * Entry(out, n, k)

C3_Witness ==
    /\ WellShaped("back_input") /\ HasBias
    /\ out_grad = ones(input.rows, ctor.O)
    /\ ctor.I = 2 /\ ctor.O = 2 /\ input.rows = 2
    /\ params # ones(3, 2)
    /\ ~IsPanic(out)

\* C4: every call of back_params on a Linear layer that returns a matrix
\* returns one whose shape is the layer's param_shape().
C4_BackParamsShape ==
    (op = "back_params" /\ layer.kind = "Linear" /\ ~IsPanic(out)) =>
        Shape(out) = param_shape(layer)

\* C5: a call of forward on a Linear layer with a parameter view whose shape
\* differs from param_shape() fails and returns no output matrix.
C5_ForwardRejectsShape ==
    (op = "forward" /\ layer.kind = "Linear" /\ Shape(params) # param_shape(layer)) =>
        IsPanic(out)

\* C6: for every layer the length of default_params(), num_params() and
\* rows * cols of param_shape() all equal (I+1)*O for Linear::new(I, O), I*O
\* for Linear::without_bias(I, O) and 0 for an activation layer, whose
\* param_shape() is (0, 0).
C6_ParamCounts ==
    LET expected == CASE ctor.name = "new"          -> (ctor.I + 1) * ctor.O
                      [] ctor.name = "without_bias" -> ctor.I * ctor.O
                      [] ctor.name = "activation"   -> 0
    IN  /\ "default_params" \in calls => Len(vec) = expected
        /\ "num_params" \in calls => count = expected
        /\ "param_shape" \in calls =>
              /\ shape[1] * shape[2] = expected
              /\ ctor.name = "activation" => shape = <<0, 0>>
        /\ {"default_params", "num_params"} \subseteq calls => Len(vec) = count

C6_Witness ==
    /\ {"default_params", "num_params", "param_shape"} \subseteq calls
    /\ ctor.name = "new" /\ ctor.I = 2 /\ ctor.O = 2
    /\ Len(vec) = 6

\* C7 (as stated): with input_size, output_size and has_bias the stored
\* fields, param_shape() is (input_size + 1, output_size) when has_bias and
\* (input_size, output_size) otherwise.
C7_StoredPlusOne ==
    ("param_shape" \in calls /\ layer.kind = "Linear") =>
        shape = <<IF layer.has_bias THEN layer.input_size + 1 ELSE layer.input_size,
                  layer.output_size>>

\* C7 (amended): param_shape() is (input_size, output_size) of the stored
\* fields whether or not the layer has a bias; in terms of the constructor
\* arguments that is (I + 1, O) for Linear::new(I, O) and (I, O) for
\* Linear::without_bias(I, O).
C7_ParamShape ==
    ("param_shape" \in calls /\ layer.kind = "Linear") =>
        /\ shape = <<layer.input_size, layer.output_size>>
        /\ shape = CtorParamShape

C7_Witness ==
    /\ "param_shape" \in calls
    /\ layer.kind = "Linear" /\ layer.has_bias
    /\ layer.input_size = 3 /\ shape = <<3, 2>>

\* C8: two calls of default_params() on the same descriptor return the same
\* sequence.
C8_Deterministic ==
    "default_params_again" \in calls => vec = prev_vec

\* C9: back_input of an activation layer on an input and an out_grad of the
\* same shape returns the matrix of that shape whose entries are
\* out_grad[r][c] * func_grad(input[r][c]), whatever the params; when the two
\* shapes differ the call fails.
C9_ActivationBackInput ==
    (op = "back_input" /\ layer.kind = "Activ") =>
        IF Shape(out_grad) = Shape(input)
        THEN /\ Shape(out) = Shape(input)
             /\ \A r \in 0..(input.rows - 1), c \in 0..(input.cols - 1) :
                   Entry(out, r, c) =
                       Entry(out_grad, r, c) * func_grad(layer.T, Entry(input, r, c))
        ELSE IsPanic(out)

C9_Witness ==
    /\ op = "back_input" /\ layer.kind = "Activ" /\ layer.T = "Square"
    /\ Shape(out_grad) = <<2, 2>> /\ Shape(input) = <<2, 2>>
    /\ input # ones(2, 2) /\ out_grad # ones(2, 2)
    /\ Shape(params) = <<2, 1>>
    /\ ~IsPanic(out)

\* C10: Linear back_input returns a matrix of the shape of the original
\* input whose entry (n, i) is the sum over o < O of
\* out_grad[n][o] * params[i][o] for i < I; with a bias the last row of the
\* parameters contributes nothing.
C10_BackInputExcludesBias ==
    WellShaped("back_input") =>
        /\ Shape(out) = Shape(input)
        /\ \A n \in 0..(input.rows - 1), i \in 0..(ctor.I - 1) :
              Entry(out, n, i) =
                  SumSeq([o \in 1..ctor.O |-> Entry(out_grad, n, o - 1) * Entry(params, i, o - 1)],
                         ctor.O)

C10_Witness ==
    /\ WellShaped("back_input") /\ HasBias
    /\ ctor.I = 2 /\ ctor.O = 2 /\ input.rows = 2
    /\ out_grad # ones(2, 2) /\ params # ones(3, 2)
    /\ Shape(out) = <<2, 2>>

====
